---- MODULE Spec2Model ----
(***************************************************************************)
(* A model of static/js/main.js: the browser utility functions exported as *)
(* window.WebScraper.  The browser is the environment: a clock and a timer *)
(* queue (setTimeout / clearTimeout), the DOM children of a few containers *)
(* and of document.body, the clipboard promise, object URLs.               *)
(*                                                                         *)
(* Time is discrete.  A timer never fires before its due time and the      *)
(* clock never passes the due time of a pending timer; timers that are due *)
(* run in the order the HTML timer rules give (creation order).  A call of *)
(* func takes no clock time.                                               *)
(***************************************************************************)
EXTENDS Integers, Sequences, FiniteSets, TLC

VARIABLES
    now,          \* the clock, in milliseconds
    timers,       \* pending setTimeout entries
    nextId,       \* the next timer handle setTimeout returns
    \* ---- debounce / throttle closures
    wait,         \* debounce(func, wait): wait of each debounced wrapper
    timeout,      \* debounce: `let timeout` of each closure
    limit,        \* throttle(func, limit): limit of each throttled wrapper
    inThrottle,   \* throttle: `let inThrottle` of each closure
    log,          \* per wrapper: the calls of the wrapper and of func, in order
    \* ---- showAlert / copyToClipboard
    defaultExists,\* whether document.querySelector('.container') finds an element
    dom,          \* the children of each container element, first child first
    banners,      \* the alertDiv elements inserted so far
    dismissed,    \* banners the user closed with the btn-close button
    expired,      \* banners whose 5 second callback has run
    errors,       \* console.error output
    uncaught,     \* exceptions no handler caught (uncaught / unhandled rejection)
    clip,         \* the copyToClipboard calls and their clipboard writes
    \* ---- setLoading / storeOriginalText
    innerHTML,    \* btn.innerHTML of each button
    disabled,     \* btn.disabled of each button
    attr,         \* the data-original-text attribute: <<>> when absent, else <<value>>
    original,     \* the content each button had before any call
    ops,          \* per button: the calls made on it, in order
    \* ---- formatFileSize
    bytes,        \* the argument, as base 1024 digits, lowest first
    result,       \* what formatFileSize returned (<<>> before the call)
    \* ---- downloadFile
    body,         \* the children of document.body
    downloads,    \* per downloadFile call: its anchor and its object URL
    thrown        \* exceptions thrown by cleanup callbacks

timerVars == <<now, timers, nextId>>
wrapVars == <<wait, timeout, limit, inThrottle, log>>
alertVars == <<defaultExists, dom, banners, dismissed, expired, errors, uncaught, clip>>

loadVars == <<innerHTML, disabled, attr, original, ops>>
fmtVars == <<bytes, result>>
dlVars == <<body, downloads, thrown>>
restVars == <<loadVars, fmtVars, dlVars>>

vars == <<timerVars, wrapVars, alertVars, restVars>>

----------------------------------------------------------------------------
(* Bounds *)

MaxCalls == 3        \* calls of wrappers in one behaviour (all wrappers)
MaxTimeW == 5        \* the clock's last value in the wrapper specification
MaxDepth == 2        \* nesting of func invocations of a throttled wrapper
MaxAlerts == 2       \* banners inserted in one behaviour
MaxCopies == 1       \* copyToClipboard calls in one behaviour
MaxUncaught == 1     \* showAlert calls that throw in one behaviour
MaxTimeA == 7000     \* the clock's last value in the alert specification

MaxOps == 5          \* setLoading / storeOriginalText calls in one behaviour
MaxDigits == 6       \* base 1024 digits of a byte count
MaxDownloads == 3    \* downloadFile calls in one behaviour
MaxTimeD == 300      \* the clock's last value in the download specification

AlertSteps == {2000, 2500}    \* how far the clock moves in one step
DownloadSteps == {40, 100}

Waits == {2, 3}      \* the wait / limit arguments tried

DWrappers == {"d1", "d2"}     \* two separate debounce(...) results
TWrappers == {"t1"}           \* one throttle(...) result
Wrappers == DWrappers \cup TWrappers

----------------------------------------------------------------------------
(* The browser's timers *)

UndefinedV == [tag |-> "undefined", id |-> 0]
NullV == [tag |-> "null", id |-> 0]
Handle(n) == [tag |-> "id", id |-> n]

\* setTimeout(callback, delay): the entry it adds
Timer(id, kind, owner, delay, arg) ==
    [id |-> id, kind |-> kind, owner |-> owner, due |-> now + delay, arg |-> arg]

\* clearTimeout(h): no effect for undefined, null or a handle that has fired
ClearTimeout(ts, h) == {t \in ts : ~(h.tag = "id" /\ t.id = h.id)}

Due(t) == t \in timers /\ t.due <= now /\ \A u \in timers : u.due <= now => t.id <= u.id

MinDue == CHOOSE d \in {t.due : t \in timers} : \A t \in timers : d <= t.due

\* the clock moves on by at most d, and stops at the next timer's due time
Advance(d, max) ==
    /\ now < max
    /\ \A t \in timers : t.due > now
    /\ LET to == IF now + d > max THEN max ELSE now + d
       IN now' = IF timers # {} /\ MinDue < to THEN MinDue ELSE to
    /\ UNCHANGED <<timers, nextId>>

----------------------------------------------------------------------------
(* debounce and throttle, main.js:110-137 *)

\* log entries: a call of the wrapper (made by the page, or by func while it
\* runs), an invocation of func, func throwing
CallEv(arg, from) == [e |-> "call", at |-> now, arg |-> arg, from |-> from]
InvokeEv(arg) == [e |-> "invoke", at |-> now, arg |-> arg, from |-> "wrapper"]
ThrowEv(arg) == [e |-> "throw", at |-> now, arg |-> arg, from |-> "func"]

RECURSIVE SumLen(_, _)
SumLen(f, S) == IF S = {} THEN 0
                ELSE LET x == CHOOSE x \in S : TRUE
                     IN Len(SelectSeq(f[x], LAMBDA ev : ev.e = "call")) + SumLen(f, S \ {x})
TotalCalls == SumLen(log, Wrappers)

\* the state one closure reads and writes, threaded through the code
St(w) == [timeout |-> timeout[w], timers |-> timers, nextId |-> nextId, log |-> log[w]]

\* A variant of executedFunction that forgets line 118's clearTimeout.
executedFunctionNoClear(w, st, arg, from) ==
    [st EXCEPT !.timers = st.timers \cup {Timer(st.nextId, "later", w, wait[w], arg)},
               !.timeout = Handle(st.nextId),
               !.nextId = st.nextId + 1,
               !.log = Append(st.log, CallEv(arg, from))]

\* A variant of executedFunction whose timer handle is shared by all closures
\* (`timeout` declared outside debounce).
executedFunctionSharedHandle(w, st, arg, from) ==
    [st EXCEPT !.timers = {t \in st.timers : t.kind # "later"}
                            \cup {Timer(st.nextId, "later", w, wait[w], arg)},
               !.timeout = Handle(st.nextId),
               !.nextId = st.nextId + 1,
               !.log = Append(st.log, CallEv(arg, from))]

\* executedFunction(...args), lines 112-120
executedFunction(w, st, arg, from) ==
    [st EXCEPT !.timers = ClearTimeout(st.timers, st.timeout)
                            \cup {Timer(st.nextId, "later", w, wait[w], arg)},
               !.timeout = Handle(st.nextId),
               !.nextId = st.nextId + 1,
               !.log = Append(st.log, CallEv(arg, from))]

\* later(), lines 113-117, run by the timer t; func may call the wrapper again
later(w, st, t, reenter) ==
    LET s1 == [st EXCEPT !.timers = ClearTimeout(st.timers \ {t}, st.timeout),
                         !.timeout = NullV,
                         !.log = Append(st.log, InvokeEv(t.arg))]
    IN IF reenter THEN executedFunction(w, s1, Len(s1.log) + 1, "func") ELSE s1

Store(w, st) ==
    /\ timers' = st.timers
    /\ nextId' = st.nextId
    /\ timeout' = [timeout EXCEPT ![w] = st.timeout]
    /\ log' = [log EXCEPT ![w] = st.log]

NextArg(w) == Len(log[w]) + 1

DebounceCall(w) ==
    /\ TotalCalls < MaxCalls
    /\ Store(w, executedFunction(w, St(w), NextArg(w), "page"))
    /\ UNCHANGED <<now, wait, limit, inThrottle, alertVars, restVars>>

LaterFires(w) ==
    \E t \in timers : \E reenter \in BOOLEAN :
        /\ Due(t) /\ t.kind = "later" /\ t.owner = w
        /\ reenter => TotalCalls < MaxCalls
        /\ Store(w, later(w, St(w), t, reenter))
        /\ UNCHANGED <<now, wait, limit, inThrottle, alertVars, restVars>>

\* what one invocation of func does: it returns, it throws, or it calls the
\* wrapper again before it returns (bs: this invocation's and the nested ones')
RECURSIVE Chains(_)
Chains(n) == IF n <= 1 THEN {<<"return">>, <<"throw">>}
             ELSE Chains(n - 1) \cup {<<"reenter">> \o b : b \in Chains(n - 1)}
Behaviours == Chains(MaxDepth)

TSt(w) == [inThrottle |-> inThrottle[w], timers |-> timers, nextId |-> nextId,
           log |-> log[w], threw |-> FALSE]

\* the function throttle returns, lines 126-136
RECURSIVE throttled(_, _, _, _)
throttled(w, st, bs, from) ==
    LET s0 == [st EXCEPT !.log = Append(st.log, CallEv(Len(st.log) + 1, from))]
        arg == Len(s0.log)
    IN IF s0.inThrottle = "true" THEN s0                       \* line 129
       ELSE LET s1 == [s0 EXCEPT !.log = Append(s0.log, InvokeEv(arg))]
                \* func.apply(context, args), line 130
                s2 == IF Head(bs) = "return" THEN s1
                      ELSE IF Head(bs) = "throw"
                      THEN [s1 EXCEPT !.threw = TRUE, !.log = Append(s1.log, ThrowEv(arg))]
                      ELSE throttled(w, s1, Tail(bs), "func")
            IN IF s2.threw THEN s2                             \* lines 131-134 skipped
               ELSE [s2 EXCEPT !.inThrottle = "true",
                               !.timers = s2.timers \cup
                                   {Timer(s2.nextId, "throttle", w, limit[w], 0)},
                               !.nextId = s2.nextId + 1]

CallsIn(bs) == Len(bs)

ThrottleCall(w) ==
    \E bs \in Behaviours :
        /\ Len(bs) <= MaxDepth
        /\ TotalCalls + CallsIn(bs) <= MaxCalls
        /\ LET st == throttled(w, TSt(w), bs, "page")
           IN /\ timers' = st.timers
              /\ nextId' = st.nextId
              /\ inThrottle' = [inThrottle EXCEPT ![w] = st.inThrottle]
              /\ log' = [log EXCEPT ![w] = st.log]
        /\ UNCHANGED <<now, wait, limit, timeout, alertVars, restVars>>

\* the timer callback of lines 132-134
ThrottleTimeout(w) ==
    \E t \in timers :
        /\ Due(t) /\ t.kind = "throttle" /\ t.owner = w
        /\ timers' = timers \ {t}
        /\ inThrottle' = [inThrottle EXCEPT ![w] = "false"]
        /\ UNCHANGED <<now, nextId, wait, limit, timeout, log, alertVars, restVars>>

TickW ==
    /\ Advance(1, MaxTimeW)
    /\ UNCHANGED <<wrapVars, alertVars, restVars>>

InitTimers == now = 0 /\ timers = {} /\ nextId = 1

\* no wrapper has been made
NoWrappers ==
    /\ wait = <<>> /\ limit = <<>> /\ timeout = <<>> /\ inThrottle = <<>>
    /\ log = <<>>

\* a page with no alert and no clipboard activity
NoAlerts ==
    /\ defaultExists = TRUE
    /\ dom = <<>> /\ banners = <<>> /\ dismissed = {} /\ expired = {}
    /\ errors = <<>> /\ uncaught = 0 /\ clip = <<>>

NoButtons ==
    /\ innerHTML = <<>> /\ disabled = <<>> /\ attr = <<>> /\ original = <<>>
    /\ ops = <<>>

NoFormat == bytes = <<>> /\ result = <<>>

NoDownloads == body = <<>> /\ downloads = <<>> /\ thrown = 0

InitW ==
    /\ InitTimers
    /\ NoAlerts /\ NoButtons /\ NoFormat /\ NoDownloads
    \* the two debounced wrappers are interchangeable: d1 gets the smaller wait
    /\ wait \in {f \in [DWrappers -> Waits] : f["d1"] <= f["d2"]}
    /\ limit \in [TWrappers -> Waits]
    /\ timeout = [w \in DWrappers |-> UndefinedV]
    /\ inThrottle = [w \in TWrappers |-> "undefined"]
    /\ log = [w \in Wrappers |-> <<>>]

NextW ==
    \/ \E w \in DWrappers : DebounceCall(w)
    \/ \E w \in DWrappers : LaterFires(w)
    \/ \E w \in TWrappers : ThrottleCall(w)
    \/ \E w \in TWrappers : ThrottleTimeout(w)
    \/ TickW

SpecW == InitW /\ [][NextW]_vars

----------------------------------------------------------------------------
(* Claims about debounce and throttle *)

IsCall(L, j) == j \in 1..Len(L) /\ L[j].e = "call"
IsInvoke(L, j) == j \in 1..Len(L) /\ L[j].e = "invoke"
\* func was invoked for the call L[k], at once
Invoked(L, k) == IsInvoke(L, k + 1) /\ L[k + 1].arg = L[k].arg /\ L[k + 1].at = L[k].at

PendingLater(w) == {t \in timers : t.kind = "later" /\ t.owner = w}

\* C1: a burst of calls of a debounced wrapper, each less than wait after the
\* one before, gives exactly one invocation of func, wait after the last call:
\* func is invoked only right after a call, exactly wait after that call; two
\* calls with no invocation between them are at most wait apart; and a call
\* is not left without its invocation once more than wait has passed.
DebounceOnce ==
    \A w \in DWrappers :
        LET L == log[w] IN
        /\ \A j \in 1..Len(L) :
              IsInvoke(L, j) => /\ IsCall(L, j - 1)
                                /\ L[j].at = L[j - 1].at + wait[w]
        /\ \A j \in 1..Len(L) :
              IsCall(L, j) /\ IsCall(L, j + 1) => L[j + 1].at - L[j].at <= wait[w]
        /\ IsCall(L, Len(L)) => now <= L[Len(L)].at + wait[w]

\* C1 witness: two calls less than wait apart, then the one invocation
DebounceBurstFired ==
    \E w \in DWrappers : \E j \in 1..Len(log[w]) :
        /\ IsCall(log[w], j) /\ IsCall(log[w], j + 1) /\ IsInvoke(log[w], j + 2)
        /\ log[w][j + 1].at > log[w][j].at
        /\ log[w][j + 1].at - log[w][j].at < wait[w]
        /\ now > log[w][j + 2].at

\* C9: a debounced wrapper has at most one pending timer, the one its closure
\* holds and the one of its latest call; func runs with the arguments of the
\* latest call only (a superseded timer never fires it); and a step of one
\* wrapper leaves the timers and the closure state of the others alone.
OneTimerInv ==
    \A w \in DWrappers :
        LET L == log[w] IN
        /\ Cardinality(PendingLater(w)) <= 1
        /\ \A t \in PendingLater(w) :
              /\ timeout[w] = Handle(t.id)
              /\ IsCall(L, Len(L)) /\ L[Len(L)].arg = t.arg
              /\ t.due = L[Len(L)].at + wait[w]
        /\ \A j \in 1..Len(L) :
              IsInvoke(L, j) => IsCall(L, j - 1) /\ L[j].arg = L[j - 1].arg

OwnTimers(w) == {t \in timers : t.owner = w}

Independent ==
    \A w \in Wrappers :
        Len(log'[w]) > Len(log[w]) =>
            \A v \in Wrappers \ {w} :
                /\ {t \in timers' : t.owner = v} = OwnTimers(v)
                /\ log'[v] = log[v]
                /\ v \in DWrappers => timeout'[v] = timeout[v]
                /\ v \in TWrappers => inThrottle'[v] = inThrottle[v]

OneTimerPerWrapper == []OneTimerInv /\ [][Independent]_vars

\* C9 witness: a call superseded a pending timer of one debounced wrapper
\* while another wrapper had a timer pending
SupersededBesideOthers ==
    \E w \in DWrappers : \E v \in Wrappers \ {w} :
        /\ Len(log[w]) >= 2 /\ IsCall(log[w], Len(log[w])) /\ IsCall(log[w], Len(log[w]) - 1)
        /\ log[w][Len(log[w])].at < log[w][Len(log[w]) - 1].at + wait[w]
        /\ PendingLater(w) # {} /\ OwnTimers(v) # {}

DropsOf(w) ==
    LET L == log[w] IN
    /\ L # <<>> => IsCall(L, 1) /\ Invoked(L, 1)
    /\ \A j \in 1..Len(L) : \A c \in 1..Len(L) :
          (j < c /\ IsInvoke(L, j) /\ IsCall(L, c) /\ L[c].at < L[j].at + limit[w])
              => \A m \in 1..Len(L) : IsInvoke(L, m) => L[m].arg # L[c].arg
    /\ \A c \in 1..Len(L) :
          (IsCall(L, c) /\ \A j \in 1..(c - 1) :
                              IsInvoke(L, j) => L[c].at > L[j].at + limit[w])
              => Invoked(L, c)

RateOf(w) ==
    \A j \in 1..Len(log[w]) : \A c \in 1..Len(log[w]) :
        (j < c /\ IsInvoke(log[w], j) /\ IsInvoke(log[w], c))
            => log[w][c].at - log[w][j].at >= limit[w]

\* C2: the first call of a throttled wrapper invokes func at once; a call made
\* less than limit after an invocation of func is dropped, then and later; a
\* call made more than limit after every invocation invokes func at once.
ThrottleDrops == \A w \in TWrappers : DropsOf(w)

\* C3: any two invocations of func by one throttled wrapper are at least
\* limit apart.
ThrottleRate == \A w \in TWrappers : RateOf(w)

\* func never threw and never called the wrapper itself
Plain(L) ==
    \A j \in 1..Len(L) : L[j].e # "throw" /\ (L[j].e = "call" => L[j].from = "page")

\* both throttle statements hold as long as func returns normally and does
\* not call the wrapper
ThrottlePlain == \A w \in TWrappers : Plain(log[w]) => DropsOf(w) /\ RateOf(w)

----------------------------------------------------------------------------
(* showAlert and copyToClipboard, main.js:35-52 and 82-89 *)

AlertDelay == 5000

Containers == {"page", "panel"}   \* "page" is the '.container' element
NoContainer == "none"             \* showAlert called without a container

Static == [k |-> "static", id |-> 0]      \* a child that is no banner
Alert(n) == [k |-> "alert", id |-> n]     \* the n-th alertDiv

Remove(children, node) == SelectSeq(children, LAMBDA x : x # node)
InDom(d, n) == \E c \in Containers : \E i \in 1..Len(d[c]) : d[c][i] = Alert(n)

ASt == [dom |-> dom, banners |-> banners, timers |-> timers, nextId |-> nextId,
        errors |-> errors, uncaught |-> uncaught, threw |-> FALSE]

\* line 43: container || document.querySelector('.container')
Target(container) ==
    IF container # NoContainer THEN container
    ELSE IF defaultExists THEN "page" ELSE "null"

\* A variant of showAlert that appends the banner (appendChild).
showAlertAppend(st, message, type, container) ==
    LET target == Target(container)
        n == Len(st.banners) + 1
    IN IF target = "null" THEN [st EXCEPT !.threw = TRUE]
       ELSE [st EXCEPT
               !.dom = [st.dom EXCEPT ![target] = Append(@, Alert(n))],
               !.banners = Append(st.banners,
                   [message |-> message, type |-> type, container |-> container,
                    shownAt |-> now]),
               !.timers = st.timers \cup {Timer(st.nextId, "alert", n, AlertDelay, 0)},
               !.nextId = st.nextId + 1]

\* showAlert(message, type, container), lines 35-52.  With no container and
\* no '.container' element, targetContainer is null and line 44 throws.
showAlert(st, message, type, container) ==
    LET target == Target(container)
        n == Len(st.banners) + 1
    IN IF target = "null" THEN [st EXCEPT !.threw = TRUE]
       ELSE [st EXCEPT
               !.dom = [st.dom EXCEPT ![target] = <<Alert(n)>> \o @],
               !.banners = Append(st.banners,
                   [message |-> message, type |-> type, container |-> container,
                    shownAt |-> now]),
               !.timers = st.timers \cup {Timer(st.nextId, "alert", n, AlertDelay, 0)},
               !.nextId = st.nextId + 1]

\* A variant of the timer callback with no parentNode guard:
\* alertDiv.parentNode.removeChild(alertDiv).
alertTimeoutUnguarded(st, n) ==
    IF InDom(st.dom, n)
    THEN [st EXCEPT !.dom = [c \in Containers |-> Remove(st.dom[c], Alert(n))]]
    ELSE [st EXCEPT !.uncaught = st.uncaught + 1]

\* the timer callback, lines 47-51
alertTimeout(st, n) ==
    IF InDom(st.dom, n)                                         \* alertDiv.parentNode
    THEN [st EXCEPT !.dom = [c \in Containers |-> Remove(st.dom[c], Alert(n))]]
    ELSE st

StoreA(st) ==
    /\ dom' = st.dom
    /\ banners' = st.banners
    /\ timers' = st.timers
    /\ nextId' = st.nextId
    /\ errors' = st.errors
    /\ uncaught' = st.uncaught

\* some script calls WebScraper.showAlert
ShowAlertCall ==
    \E container \in Containers \cup {NoContainer} :
        /\ container = "page" => defaultExists
        /\ Len(banners) < MaxAlerts
        /\ Target(container) = "null" => uncaught < MaxUncaught
        /\ LET st == showAlert(ASt, "Scrape finished", "info", container)
           IN StoreA(IF st.threw THEN [st EXCEPT !.uncaught = st.uncaught + 1] ELSE st)
        /\ UNCHANGED <<now, defaultExists, dismissed, expired, clip, wrapVars, restVars>>

AlertTimeout ==
    \E t \in timers :
        /\ Due(t) /\ t.kind = "alert"
        /\ StoreA(alertTimeout([ASt EXCEPT !.timers = timers \ {t}], t.owner))
        /\ expired' = expired \cup {t.owner}
        /\ UNCHANGED <<now, defaultExists, dismissed, clip, wrapVars, restVars>>

\* the user clicks the banner's btn-close button (data-bs-dismiss="alert",
\* line 40): Bootstrap removes the banner from the document
Dismiss ==
    \E n \in 1..Len(banners) :
        /\ InDom(dom, n)
        /\ dom' = [c \in Containers |-> Remove(dom[c], Alert(n))]
        /\ dismissed' = dismissed \cup {n}
        /\ UNCHANGED <<timerVars, defaultExists, banners, expired, errors, uncaught,
                       clip, wrapVars, restVars>>

\* copyToClipboard(text), line 83: one writeText, its promise pending
CopyToClipboard ==
    /\ Len(clip) < MaxCopies
    /\ clip' = Append(clip, [state |-> "pending", writes |-> 1, shown |-> <<>>,
                             logged |-> 0])
    /\ UNCHANGED <<timerVars, defaultExists, dom, banners, dismissed, expired, errors,
                   uncaught, wrapVars, restVars>>

\* the .catch handler, lines 85-88; an exception in it is an unhandled rejection
catchHandler(st) ==
    LET s1 == [st EXCEPT !.errors = Append(st.errors, "Could not copy text: "),
                         !.threw = FALSE]
        s2 == showAlert(s1, "Failed to copy to clipboard", "error", NoContainer)
    IN IF s2.threw THEN [s2 EXCEPT !.uncaught = s2.uncaught + 1] ELSE s2

\* .then(...).catch(...), lines 83-88, once writeText has settled: the catch is
\* chained on the promise .then returns, so it also handles what the .then
\* handler throws
thenCatch(st, outcome) ==
    IF outcome = "resolved"
    THEN LET s1 == showAlert(st, "Copied to clipboard!", "success", NoContainer)
         IN IF s1.threw THEN catchHandler(s1) ELSE s1
    ELSE catchHandler(st)

ClipboardSettles ==
    \E i \in 1..Len(clip) : \E outcome \in {"resolved", "rejected"} :
        /\ clip[i].state = "pending"
        /\ Len(banners) < MaxAlerts
        /\ LET st == thenCatch(ASt, outcome)
           IN /\ StoreA(st)
              /\ clip' = [clip EXCEPT ![i] =
                    [state |-> outcome, writes |-> clip[i].writes,
                     shown |-> SubSeq(st.banners, Len(banners) + 1, Len(st.banners)),
                     logged |-> Len(st.errors) - Len(errors)]]
        /\ UNCHANGED <<now, defaultExists, dismissed, expired, wrapVars, restVars>>

TickA ==
    /\ \E d \in AlertSteps : Advance(d, MaxTimeA)
    /\ UNCHANGED <<alertVars, wrapVars, restVars>>

InitA ==
    /\ InitTimers
    /\ NoWrappers /\ NoButtons /\ NoFormat /\ NoDownloads
    /\ defaultExists \in BOOLEAN
    /\ dom = [c \in Containers |-> IF c = "page" /\ defaultExists THEN <<Static>> ELSE <<>>]
    /\ banners = <<>> /\ dismissed = {} /\ expired = {}
    /\ errors = <<>> /\ uncaught = 0 /\ clip = <<>>

NextA ==
    \/ ShowAlertCall
    \/ AlertTimeout
    \/ Dismiss
    \/ CopyToClipboard
    \/ ClipboardSettles
    \/ TickA

SpecA == InitA /\ [][NextA]_vars

----------------------------------------------------------------------------
(* Claims about showAlert and copyToClipboard *)

\* the step inserted a banner: a showAlert call that did not throw
Inserted == Len(banners') = Len(banners) + 1

\* the step ran the 5 second callback of banner n
TimedOut(n) == n \in expired' \ expired

AlertInserted ==
    Inserted =>
        LET n == Len(banners')
            c == IF banners'[n].container # NoContainer THEN banners'[n].container
                 ELSE "page"
        IN /\ dom'[c] = <<Alert(n)>> \o dom[c]
           /\ \A o \in Containers \ {c} : dom'[o] = dom[o]
           /\ banners' = Append(banners, banners'[n])

OwnBannerRemoved ==
    \A n \in 1..Len(banners) :
        TimedOut(n) => /\ dom' = [c \in Containers |-> Remove(dom[c], Alert(n))]
                       /\ banners' = banners

GoneAfterDelay ==
    \A n \in 1..Len(banners) :
        /\ InDom(dom, n) => now <= banners[n].shownAt + AlertDelay
        /\ n \in expired => ~InDom(dom, n) /\ now >= banners[n].shownAt + AlertDelay

DismissedTimeoutIsNoOp ==
    \A n \in 1..Len(banners) :
        (TimedOut(n) /\ n \in dismissed) =>
            /\ dom' = dom
            /\ uncaught' = uncaught /\ errors' = errors
NoDoubleRemoval == [][DismissedTimeoutIsNoOp]_vars

\* C6 witness: the callback of a dismissed banner has run while another
\* banner and another child are in the DOM
DismissedThenExpired ==
    \E n \in 1..Len(banners) : \E m \in 1..Len(banners) :
        /\ n \in dismissed /\ n \in expired
        /\ m # n /\ InDom(dom, m) /\ Len(dom["page"]) >= 2

ErrorBanner(b) == b.type = "error" /\ b.message = "Failed to copy to clipboard"
SuccessBanner(b) == b.type = "success" /\ b.message = "Copied to clipboard!"

\* C8: a copyToClipboard call issues one clipboard write and ends with exactly
\* one banner: the success banner when the write resolved; when it was
\* rejected, the error is logged and the error banner is shown; and the error
\* is logged or the error banner shown only when the write was rejected.
CopyNotifiesOnce ==
    \A i \in 1..Len(clip) :
        clip[i].state # "pending" =>
            /\ clip[i].writes = 1
            /\ Len(clip[i].shown) = 1
            /\ clip[i].state = "resolved" =>
                  \A j \in 1..Len(clip[i].shown) : SuccessBanner(clip[i].shown[j])
            /\ clip[i].state = "rejected" =>
                  /\ clip[i].logged = 1
                  /\ \A j \in 1..Len(clip[i].shown) : ErrorBanner(clip[i].shown[j])
            /\ (clip[i].logged > 0 \/ \E j \in 1..Len(clip[i].shown) :
                                          ErrorBanner(clip[i].shown[j]))
                  => clip[i].state = "rejected"

\* with a '.container' element in the page, the statement of C8 holds
CopyNotifiesOnceWithContainer == defaultExists => CopyNotifiesOnce

----------------------------------------------------------------------------
(* setLoading and storeOriginalText, main.js:159-176 *)

Buttons == {"b1", "b2"}
Contents == {"", "Scrape", "<b>Run</b>"}
Spinner == "<i class=\"fas fa-spinner fa-spin me-2\"></i>Loading..."

\* document.querySelector(selector) for the selectors tried
Selectors == {"#b1"}
QuerySelector(sel) == "b1"

\* an argument of setLoading: a selector string or the element itself
Args == [isString : {TRUE}, v : Selectors] \cup [isString : {FALSE}, v : Buttons]
Btn(element) == IF element.isString THEN QuerySelector(element.v) ELSE element.v

\* btn.getAttribute('data-original-text') || btn.innerHTML, line 167: null
\* (no attribute) and the empty string are falsy
OrInnerHTML(a, html) == IF a = <<>> \/ a[1] = "" THEN html ELSE a[1]

TotalOps == Len(ops["b1"]) + Len(ops["b2"])

\* setLoading(element, loading), lines 159-169
SetLoading(element, loading) ==
    LET btn == Btn(element) IN
    /\ TotalOps < MaxOps
    /\ disabled' = [disabled EXCEPT ![btn] = loading]
    /\ innerHTML' = [innerHTML EXCEPT ![btn] =
                        IF loading THEN Spinner ELSE OrInnerHTML(attr[btn], @)]
    /\ ops' = [ops EXCEPT ![btn] = Append(@, IF loading THEN "on" ELSE "off")]
    /\ UNCHANGED <<attr, original, timerVars, wrapVars, alertVars, fmtVars, dlVars>>

\* storeOriginalText(buttons), lines 172-176
StoreOriginalText(buttons) ==
    /\ TotalOps + Cardinality(buttons) <= MaxOps
    /\ attr' = [b \in Buttons |-> IF b \in buttons THEN <<innerHTML[b]>> ELSE attr[b]]
    /\ ops' = [b \in Buttons |-> IF b \in buttons THEN Append(ops[b], "store") ELSE ops[b]]
    /\ UNCHANGED <<innerHTML, disabled, original, timerVars, wrapVars, alertVars,
                   fmtVars, dlVars>>

InitL ==
    /\ InitTimers
    /\ NoWrappers /\ NoAlerts /\ NoFormat /\ NoDownloads
    /\ innerHTML \in [Buttons -> Contents]
    /\ original = innerHTML
    /\ disabled = [b \in Buttons |-> FALSE]
    /\ attr = [b \in Buttons |-> <<>>]
    /\ ops = [b \in Buttons |-> <<>>]

NextL ==
    \/ \E element \in Args : \E loading \in BOOLEAN : SetLoading(element, loading)
    \/ \E buttons \in (SUBSET Buttons) \ {{}} : StoreOriginalText(buttons)

SpecL == InitL /\ [][NextL]_vars

\* storeOriginalText was the first call on the button and was not called
\* again, and the last two calls were setLoading(true), setLoading(false)
StoredThenToggled(h) ==
    /\ Len(h) >= 3
    /\ h[1] = "store" /\ \A j \in 2..Len(h) : h[j] # "store"
    /\ h[Len(h) - 1] = "on" /\ h[Len(h)] = "off"

\* C4: after storeOriginalText, setLoading(el, true) then setLoading(el, false)
\* leaves the button enabled with its original content, whatever that content.
RestoresOriginal ==
    \A b \in Buttons :
        StoredThenToggled(ops[b]) => ~disabled[b] /\ innerHTML[b] = original[b]

\* the same for a button whose original content is not empty
RestoresNonEmpty ==
    \A b \in Buttons :
        (StoredThenToggled(ops[b]) /\ original[b] # "") =>
            ~disabled[b] /\ innerHTML[b] = original[b]

----------------------------------------------------------------------------
(* formatFileSize, main.js:55-63 *)

\* A byte count is written in base k, lowest digit first, without leading
\* zeros: <<>> is 0, <<0, 1>> is 1024.  The counts tried are below 2^53, which
\* a JavaScript number holds exactly; arithmetic on them is exact here.
k == 1024
sizes == <<"Bytes", "KB", "MB", "GB", "TB">>

DigitVals == {0, 1, 128, 512, 1023}
MaxTopDigit == 7     \* a count of six digits below 2^53 has top digit <= 7

ByteCounts ==
    {b \in UNION {[1..n -> DigitVals] : n \in 0..MaxDigits} :
        b # <<>> => /\ b[Len(b)] # 0
                    /\ Len(b) >= 6 => b[Len(b)] <= MaxTopDigit}

\* Math.floor(Math.log(bytes) / Math.log(k)) for bytes >= 1, line 60
RECURSIVE FloorLogK(_)
FloorLogK(b) == IF Len(b) <= 1 THEN 0 ELSE 1 + FloorLogK(Tail(b))

\* sizes[i] of a JavaScript array: undefined past its end
At(arr, i) == IF i + 1 \in 1..Len(arr) THEN arr[i + 1] ELSE "undefined"

\* 100 * (f / k^Len(f)) for the fraction digits f, as <<carry, remainder digits>>
RECURSIVE Times100(_, _)
Times100(f, carry) ==
    IF f = <<>> THEN <<carry, <<>>>>
    ELSE LET cur == Head(f) * 100 + carry
             rest == Times100(Tail(f), cur \div k)
         IN <<rest[1], <<cur % k>> \o rest[2]>>

\* (bytes / k^i).toFixed(2) in hundredths: the nearest, a tie going up
Hundredths(b, i) ==
    LET f == SubSeq(b, 1, i)
        m == Times100(f, 0)
        up == IF i > 0 /\ m[2][i] >= k \div 2 THEN 1 ELSE 0
    IN b[i + 1] * 100 + m[1] + up

\* parseFloat of the toFixed(2) text, then its conversion to a string
NumberText(h) ==
    LET w == h \div 100
        c == h % 100
    IN IF c = 0 THEN ToString(w)
       ELSE IF c % 10 = 0 THEN ToString(w) \o "." \o ToString(c \div 10)
       ELSE IF c < 10 THEN ToString(w) \o ".0" \o ToString(c)
       ELSE ToString(w) \o "." \o ToString(c)

\* formatFileSize(bytes), lines 55-63
formatFileSize(b) ==
    IF b = <<>> THEN [text |-> "0 Bytes", unit |-> "Bytes", i |-> 0]
    ELSE LET i == FloorLogK(b)
         IN [text |-> NumberText(Hundredths(b, i)) \o " " \o At(sizes, i),
             unit |-> At(sizes, i), i |-> i]

FormatFileSize ==
    /\ result = <<>>
    /\ result' = <<formatFileSize(bytes)>>
    /\ UNCHANGED <<bytes, timerVars, wrapVars, alertVars, loadVars, dlVars>>

InitF ==
    /\ InitTimers
    /\ NoWrappers /\ NoAlerts /\ NoButtons /\ NoDownloads
    /\ bytes \in ByteCounts
    /\ result = <<>>

NextF == FormatFileSize

SpecF == InitF /\ [][NextF]_vars

Units == {sizes[j] : j \in 1..Len(sizes)}

\* C7: for every byte count, formatFileSize returns a text whose unit is one
\* of Bytes, KB, MB, GB, TB, the one at index floor(log1024(bytes)) of that
\* list, and "0 Bytes" for 0.
UnitInList ==
    result # <<>> =>
        /\ result[1].unit \in Units
        /\ bytes # <<>> => /\ Len(bytes) <= Len(sizes)
                           /\ result[1].unit = sizes[Len(bytes)]
        /\ bytes = <<>> => result[1].text = "0 Bytes"

\* the same for byte counts below 1024^5
UnitInListBelowPB == Len(bytes) <= Len(sizes) => UnitInList

----------------------------------------------------------------------------
(* downloadFile, main.js:92-107 *)

CleanupDelay == 100

FileNames == {"data.csv", "data.json"}

Anchor(n) == [k |-> "a", id |-> n]
InBody(n) == \E j \in 1..Len(body) : body[j] = Anchor(n)

\* downloadFile(content, fileName, mimeType), lines 92-107
DownloadFile(fileName) ==
    LET n == Len(downloads) + 1 IN
    /\ n <= MaxDownloads
    /\ now + CleanupDelay <= MaxTimeD
    /\ downloads' = Append(downloads,
          [download |-> fileName, createdAt |-> now, clicks |-> 1,
           urlLive |-> TRUE, revoked |-> 0, cleanedAt |-> <<>>])
    /\ body' = Append(body, Anchor(n))
    /\ timers' = timers \cup {Timer(nextId, "cleanup", n, CleanupDelay, 0)}
    /\ nextId' = nextId + 1
    /\ UNCHANGED <<now, thrown, wrapVars, alertVars, loadVars, fmtVars>>

\* A variant of the cleanup callback that removes the last child of the body
\* (document.body.removeChild(document.body.lastChild)).
cleanupLastChild(st, n) ==
    [st EXCEPT !.body = SubSeq(st.body, 1, Len(st.body) - 1),
               !.downloads = [st.downloads EXCEPT ![n] =
                   [@ EXCEPT !.urlLive = FALSE, !.revoked = @ + 1,
                             !.cleanedAt = <<now>>]]]

\* the cleanup callback, lines 103-106; removeChild throws when the anchor is
\* no child of the body, and the URL is then not revoked
cleanup(st, n) ==
    IF \E j \in 1..Len(st.body) : st.body[j] = Anchor(n)
    THEN [st EXCEPT !.body = Remove(st.body, Anchor(n)),
                    !.downloads = [st.downloads EXCEPT ![n] =
                        [@ EXCEPT !.urlLive = FALSE, !.revoked = @ + 1,
                                  !.cleanedAt = <<now>>]]]
    ELSE [st EXCEPT !.thrown = st.thrown + 1]

Cleanup ==
    \E t \in timers :
        /\ Due(t) /\ t.kind = "cleanup"
        /\ LET st == cleanup([body |-> body, downloads |-> downloads, thrown |-> thrown],
                             t.owner)
           IN /\ body' = st.body
              /\ downloads' = st.downloads
              /\ thrown' = st.thrown
        /\ timers' = timers \ {t}
        /\ UNCHANGED <<now, nextId, wrapVars, alertVars, loadVars, fmtVars>>

TickD ==
    /\ \E d \in DownloadSteps : Advance(d, MaxTimeD)
    /\ UNCHANGED <<wrapVars, alertVars, loadVars, fmtVars, dlVars>>

InitD ==
    /\ InitTimers
    /\ NoWrappers /\ NoAlerts /\ NoButtons /\ NoFormat
    /\ body = <<Static>>
    /\ downloads = <<>>
    /\ thrown = 0

NextD ==
    \/ \E fileName \in FileNames : DownloadFile(fileName)
    \/ Cleanup
    \/ TickD

\* the browser keeps running: time passes and due timer callbacks are run
SpecD == InitD /\ [][NextD]_vars /\ WF_vars(TickD) /\ WF_vars(Cleanup)

Cleaned(n) == downloads[n].cleanedAt # <<>>

DownloadInv ==
    /\ thrown = 0
    /\ \A n \in 1..Len(downloads) :
          /\ downloads[n].clicks = 1
          /\ downloads[n].revoked = (IF Cleaned(n) THEN 1 ELSE 0)
          /\ downloads[n].urlLive = ~Cleaned(n)
          /\ InBody(n) = ~Cleaned(n)
          /\ Cleaned(n) => downloads[n].cleanedAt[1] = downloads[n].createdAt + CleanupDelay
          /\ ~Cleaned(n) => now <= downloads[n].createdAt + CleanupDelay
    /\ \A j \in 1..Len(body) : \A i \in 1..Len(body) : body[i] = body[j] => i = j

\* a cleanup touches the anchor and the URL of its own download only
OwnCleanup ==
    \A n \in 1..Len(downloads) :
        (Len(downloads') = Len(downloads) /\ downloads'[n] # downloads[n]) =>
            /\ body' = Remove(body, Anchor(n))
            /\ \A m \in 1..Len(downloads) : m # n => downloads'[m] = downloads[m]

\* C10: every downloadFile call creates an object URL and appends an anchor that
\* is clicked exactly once; the anchor is removed and the URL revoked only 100
\* ms later, once, by a cleanup that touches nothing of other downloads; and
\* every download started is eventually cleaned up: URL revoked exactly once,
\* anchor out of the document.
DownloadCleansUp ==
    /\ []DownloadInv
    /\ [][OwnCleanup]_vars
    /\ \A n \in 1..MaxDownloads :
          (Len(downloads) >= n) ~> (/\ Len(downloads) >= n
                                    /\ Cleaned(n) /\ ~InBody(n)
                                    /\ downloads[n].revoked = 1)

\* C10 witness: three downloads started within the delay of the first, the
\* first two cleaned up, the third still pending
TwoCleanedOnePending ==
    /\ Len(downloads) >= 3
    /\ downloads[3].createdAt < downloads[1].createdAt + CleanupDelay
    /\ downloads[2].createdAt > downloads[1].createdAt
    /\ Cleaned(1) /\ Cleaned(2) /\ ~Cleaned(3)
    /\ body = <<Static, Anchor(3)>>

====
